---------------------------- MODULE Spec2Model ----------------------------
(***************************************************************************)
(* Model of cloudflare-llm-ms (src/src/index.ts): the OpenAI-compatible    *)
(* chat-completion adapter in front of Workers AI.                         *)
(*                                                                         *)
(* Text is modelled character by character: a JavaScript string is a TLA+  *)
(* string, read with Len, SubSeq and \o.  A JavaScript value is a tagged   *)
(* record (JStr, JNum, JNull, JBool, JArr, JObj, JUndef); an object keeps  *)
(* its members as a sequence of key/value pairs in insertion order.        *)
(***************************************************************************)
EXTENDS Integers, Sequences, FiniteSets, TLC

(***************************************************************************)
(* JavaScript values                                                       *)
(***************************************************************************)
JUndef == [t |-> "undef"]
JNull == [t |-> "null"]
JStr(s) == [t |-> "str", s |-> s]
JNum(n) == [t |-> "num", n |-> n]
JBool(b) == [t |-> "bool", b |-> b]
JArr(a) == [t |-> "arr", a |-> a]
JObj(kv) == [t |-> "obj", kv |-> kv]
KV(k, v) == [k |-> k, v |-> v]

IsStr(v) == v.t = "str"
IsObj(v) == v.t = "obj"
IsArr(v) == v.t = "arr"

\* typeof v === 'object' && v !== null (true of arrays as well)
IsObjectLike(v) == v.t \in {"obj", "arr"}

\* v[key] for an own property of an object literal: the last member with
\* that key wins; anything else has no such property.
\* (Here and below, a value that is used more than once is bound to a name
\* by a singleton set, so that it is evaluated once.)
Get(v, key) ==
  CHOOSE got \in
    {IF o.t # "obj" THEN JUndef
     ELSE LET hits == {i \in 1..Len(o.kv) : o.kv[i].k = key}
          IN IF hits = {} THEN JUndef
             ELSE o.kv[CHOOSE i \in hits : \A j \in hits : j <= i].v : o \in {v}} : TRUE

(***************************************************************************)
(* Strings                                                                 *)
(***************************************************************************)
Ch(s, i) == SubSeq(s, i, i)

\* s.slice(n) for 0 <= n
Slice(s, n) == IF n >= Len(s) THEN "" ELSE SubSeq(s, n + 1, Len(s))

\* s.startsWith(p)
StartsWith(s, p) == Len(s) >= Len(p) /\ SubSeq(s, 1, Len(p)) = p

\* the white space and line terminators String.prototype.trim removes
\* (those of the modelled alphabet)
IsTrimChar(c) == c \in {" ", "\t", "\n", "\r", "\f"}

\* The first and the last position in lo..hi of s that holds no trim
\* character, 0 when there is none (searched by halving, to keep the
\* evaluation shallow).
RECURSIVE FirstNonTrim(_, _, _)
FirstNonTrim(s, lo, hi) ==
  IF lo > hi THEN 0
  ELSE IF lo = hi THEN (IF IsTrimChar(Ch(s, lo)) THEN 0 ELSE lo)
  ELSE LET mid == (lo + hi) \div 2
           l == FirstNonTrim(s, lo, mid)
       IN IF l # 0 THEN l ELSE FirstNonTrim(s, mid + 1, hi)

RECURSIVE LastNonTrim(_, _, _)
LastNonTrim(s, lo, hi) ==
  IF lo > hi THEN 0
  ELSE IF lo = hi THEN (IF IsTrimChar(Ch(s, lo)) THEN 0 ELSE lo)
  ELSE LET mid == (lo + hi) \div 2
           h == LastNonTrim(s, mid + 1, hi)
       IN IF h # 0 THEN h ELSE LastNonTrim(s, lo, mid)

\* s.trim()
Trim(s) ==
  LET f == FirstNonTrim(s, 1, Len(s))
  IN IF f = 0 THEN "" ELSE SubSeq(s, f, LastNonTrim(s, f, Len(s)))

\* the least member of a non-empty set of positions
MinOf(S) == CHOOSE i \in S : \A j \in S : i <= j

\* the positions of s that hold a line feed
LineFeeds(s) == {i \in 1..Len(s) : Ch(s, i) = "\n"}

\* Where the match of /\r?\n/ that ends at the line feed n begins, in a
\* search that started at position from: at the carriage return before n
\* when there is one, at n otherwise.
BreakStart(s, from, n) == IF n > from /\ Ch(s, n - 1) = "\r" THEN n - 1 ELSE n

\* s.split(/\r?\n/): the pieces of s from position from on, lf holding the
\* positions of the line feeds from there on
RECURSIVE SplitLinesFrom(_, _, _)
SplitLinesFrom(s, from, lf) ==
  IF lf = {} THEN <<Slice(s, from - 1)>>
  ELSE LET n == MinOf(lf)
       IN <<SubSeq(s, from, BreakStart(s, from, n) - 1)>>
          \o SplitLinesFrom(s, n + 1, lf \ {n})

SplitLines(s) == SplitLinesFrom(s, 1, LineFeeds(s))

\* SecondBreak for the pattern /\r?\n\n/
SecondBreak_LfOnly(s, n, lf) == IF (n + 1) \in lf THEN n + 1 ELSE 0

\* The line feed that ends the match of /\r?\n\r?\n/ whose first line feed is
\* n, 0 when no second /\r?\n/ follows n at once.
SecondBreak(s, n, lf) ==
  IF (n + 1) \in lf THEN n + 1
  ELSE IF (n + 2) \in lf /\ Ch(s, n + 1) = "\r" THEN n + 2
  ELSE 0

\* s.split(/\r?\n\r?\n/): the pieces of s from position from on, lf holding
\* the line feeds at which the next match may have its first line feed
RECURSIVE SplitBlankFrom(_, _, _)
SplitBlankFrom(s, from, lf) ==
  IF lf = {} THEN <<Slice(s, from - 1)>>
  ELSE LET n == MinOf(lf)
           m == SecondBreak(s, n, lf)
       IN IF m = 0 THEN SplitBlankFrom(s, from, lf \ {n})
          ELSE <<SubSeq(s, from, BreakStart(s, from, n) - 1)>>
               \o SplitBlankFrom(s, m + 1, {i \in lf : i > m})

SplitBlank(s) == SplitBlankFrom(s, 1, LineFeeds(s))

(***************************************************************************)
(* JSON.parse.  A parse result is [ok, v, i]: whether a value was read, the *)
(* value, and the position after it.  Covered: objects, arrays, strings    *)
(* with the single-character escapes, integers, true, false, null and      *)
(* white space.  Not covered (absent from every modelled input): \u        *)
(* escapes, fractions and exponents.                                       *)
(***************************************************************************)
ParseFail == [ok |-> FALSE, v |-> JUndef, i |-> 0]
ParseOk(v, i) == [ok |-> TRUE, v |-> v, i |-> i]

IsJsonWs(c) == c \in {" ", "\t", "\n", "\r"}
IsDigit(c) == c \in {"0", "1", "2", "3", "4", "5", "6", "7", "8", "9"}
DigitVal(c) ==
  CASE c = "0" -> 0 [] c = "1" -> 1 [] c = "2" -> 2 [] c = "3" -> 3
    [] c = "4" -> 4 [] c = "5" -> 5 [] c = "6" -> 6 [] c = "7" -> 7
    [] c = "8" -> 8 [] c = "9" -> 9

RECURSIVE SkipWs(_, _)
SkipWs(s, i) ==
  IF i <= Len(s) /\ IsJsonWs(Ch(s, i)) THEN SkipWs(s, i + 1) ELSE i

\* whether the text p stands at position i of s
LitAt(s, i, p) == i + Len(p) - 1 <= Len(s) /\ SubSeq(s, i, i + Len(p) - 1) = p

Unescape(c) ==
  CASE c = "\"" -> "\"" [] c = "\\" -> "\\" [] c = "/" -> "/"
    [] c = "n" -> "\n" [] c = "r" -> "\r" [] c = "t" -> "\t"
    [] c = "f" -> "\f"
    [] OTHER -> ""

\* the characters of a string literal from position i (after the opening
\* quote) to its closing quote
RECURSIVE ScanString(_, _, _)
ScanString(s, i, acc) ==
  IF i > Len(s) THEN ParseFail
  ELSE LET c == Ch(s, i)
       IN IF c = "\"" THEN ParseOk(JStr(acc), i + 1)
          ELSE IF c = "\\"
            THEN IF i + 1 > Len(s) \/ Unescape(Ch(s, i + 1)) = "" THEN ParseFail
                 ELSE ScanString(s, i + 2, acc \o Unescape(Ch(s, i + 1)))
          ELSE IF c \in {"\n", "\r", "\t", "\f"} THEN ParseFail
          ELSE ScanString(s, i + 1, acc \o c)

RECURSIVE ScanDigits(_, _, _)
ScanDigits(s, i, n) ==
  IF i <= Len(s) /\ IsDigit(Ch(s, i))
    THEN ScanDigits(s, i + 1, 10 * n + DigitVal(Ch(s, i)))
    ELSE [n |-> n, i |-> i]

\* -?(0|[1-9][0-9]*)
ParseNumber(s, i) ==
  LET neg == i <= Len(s) /\ Ch(s, i) = "-"
      j == IF neg THEN i + 1 ELSE i
  IN IF j > Len(s) \/ ~IsDigit(Ch(s, j)) THEN ParseFail
     ELSE LET d == IF Ch(s, j) = "0" THEN [n |-> 0, i |-> j + 1]
                   ELSE ScanDigits(s, j, 0)
          IN IF d.i <= Len(s) /\ (IsDigit(Ch(s, d.i)) \/ Ch(s, d.i) \in {".", "e", "E"})
               THEN ParseFail
               ELSE ParseOk(JNum(IF neg THEN 0 - d.n ELSE d.n), d.i)

RECURSIVE ParseValue(_, _)
RECURSIVE ParseElems(_, _, _)
RECURSIVE ParseMembers(_, _, _)

\* the value that starts at or after position i
ParseValue(s, i) ==
  LET j == SkipWs(s, i)
  IN IF j > Len(s) THEN ParseFail
     ELSE LET c == Ch(s, j)
          IN CASE c = "\"" -> ScanString(s, j + 1, "")
               [] c = "{" ->
                    LET k == SkipWs(s, j + 1)
                    IN IF LitAt(s, k, "}") THEN ParseOk(JObj(<<>>), k + 1)
                       ELSE ParseMembers(s, k, <<>>)
               [] c = "[" ->
                    LET k == SkipWs(s, j + 1)
                    IN IF LitAt(s, k, "]") THEN ParseOk(JArr(<<>>), k + 1)
                       ELSE ParseElems(s, k, <<>>)
               [] c = "t" -> IF LitAt(s, j, "true") THEN ParseOk(JBool(TRUE), j + 4)
                             ELSE ParseFail
               [] c = "f" -> IF LitAt(s, j, "false") THEN ParseOk(JBool(FALSE), j + 5)
                             ELSE ParseFail
               [] c = "n" -> IF LitAt(s, j, "null") THEN ParseOk(JNull, j + 4)
                             ELSE ParseFail
               [] c = "-" \/ IsDigit(c) -> ParseNumber(s, j)
               [] OTHER -> ParseFail

\* the elements of an array from position i, acc holding those already read
ParseElems(s, i, acc) ==
  LET r == ParseValue(s, i)
  IN IF ~r.ok THEN ParseFail
     ELSE LET k == SkipWs(s, r.i)
          IN IF LitAt(s, k, "]") THEN ParseOk(JArr(Append(acc, r.v)), k + 1)
             ELSE IF LitAt(s, k, ",") THEN ParseElems(s, k + 1, Append(acc, r.v))
             ELSE ParseFail

\* the members of an object from position i, acc holding those already read
ParseMembers(s, i, acc) ==
  LET j == SkipWs(s, i)
  IN IF ~LitAt(s, j, "\"") THEN ParseFail
     ELSE LET key == ScanString(s, j + 1, "")
          IN IF ~key.ok THEN ParseFail
             ELSE LET c == SkipWs(s, key.i)
                  IN IF ~LitAt(s, c, ":") THEN ParseFail
                     ELSE LET r == ParseValue(s, c + 1)
                          IN IF ~r.ok THEN ParseFail
                             ELSE LET k == SkipWs(s, r.i)
                                      kv == Append(acc, KV(key.v.s, r.v))
                                  IN IF LitAt(s, k, "}") THEN ParseOk(JObj(kv), k + 1)
                                     ELSE IF LitAt(s, k, ",") THEN ParseMembers(s, k + 1, kv)
                                     ELSE ParseFail

\* JSON.parse(s): ok is FALSE where JSON.parse throws a SyntaxError
JSONParse(s) ==
  LET r == ParseValue(s, 1)
  IN IF r.ok /\ SkipWs(s, r.i) = Len(s) + 1 THEN r ELSE ParseFail

(***************************************************************************)
(* JSON.stringify of a value (objects keep their members' order; a member  *)
(* whose value is undefined is left out, an undefined array element is     *)
(* written null).                                                          *)
(***************************************************************************)
RECURSIVE NatToStr(_)
NatToStr(n) ==
  LET d == SubSeq("0123456789", (n % 10) + 1, (n % 10) + 1)
  IN IF n < 10 THEN d ELSE NatToStr(n \div 10) \o d

NumToStr(n) == IF n < 0 THEN "-" \o NatToStr(0 - n) ELSE NatToStr(n)

EscapeChar(c) ==
  CASE c = "\"" -> "\\\"" [] c = "\\" -> "\\\\" [] c = "\n" -> "\\n"
    [] c = "\r" -> "\\r" [] c = "\t" -> "\\t" [] c = "\f" -> "\\f"
    [] OTHER -> c

RECURSIVE EscapeStr(_)
EscapeStr(s) ==
  IF s = "" THEN "" ELSE EscapeChar(Ch(s, 1)) \o EscapeStr(Slice(s, 1))

Quote(s) == "\"" \o EscapeStr(s) \o "\""

RECURSIVE JSONStringify(_)
RECURSIVE StringifyElems(_, _)
RECURSIVE StringifyMembers(_, _)

JSONStringify(v) ==
  CASE v.t = "str" -> Quote(v.s)
    [] v.t = "num" -> NumToStr(v.n)
    [] v.t = "bool" -> IF v.b THEN "true" ELSE "false"
    [] v.t = "arr" -> "[" \o StringifyElems(v.a, TRUE) \o "]"
    [] v.t = "obj" -> "{" \o StringifyMembers(v.kv, TRUE) \o "}"
    [] OTHER -> "null"

StringifyElems(a, first) ==
  IF a = <<>> THEN ""
  ELSE (IF first THEN "" ELSE ",") \o JSONStringify(Head(a))
       \o StringifyElems(Tail(a), FALSE)

StringifyMembers(kv, first) ==
  IF kv = <<>> THEN ""
  ELSE IF Head(kv).v.t = "undef" THEN StringifyMembers(Tail(kv), first)
  ELSE (IF first THEN "" ELSE ",") \o Quote(Head(kv).k) \o ":"
       \o JSONStringify(Head(kv).v) \o StringifyMembers(Tail(kv), FALSE)

(***************************************************************************)
(* The chunk framer                                                        *)
(***************************************************************************)
\* createChunkPayload(id, model, content, finishReason): content and
\* finishReason are JNull or a JStr.  `created` (the clock) is left out.
createChunkPayload(id, model, content, finishReason) ==
  [id |-> id,
   object |-> "chat.completion.chunk",
   model |-> model,
   index |-> 0,
   delta |-> IF content = JNull THEN JObj(<<>>)
             ELSE JObj(<<KV("content", content)>>),
   finish_reason |-> finishReason]

\* sseData(payload): the text `data: ` + JSON.stringify(payload) + "\n\n",
\* kept as the payload it frames.
sseData(payload) == [k |-> "sse", payload |-> payload]

\* encoder.encode(text) of a literal text
RawText(text) == [k |-> "raw", text |-> text]

(***************************************************************************)
(* Text extraction                                                         *)
(***************************************************************************)
RECURSIVE Flatten(_)
Flatten(ss) == IF ss = <<>> THEN <<>> ELSE Head(ss) \o Flatten(Tail(ss))

CandidateKeys == <<"response", "text", "content", "delta", "output_text">>

RECURSIVE extractTextCandidates(_)
extractTextCandidates(value) ==
  CASE value.t = "str" -> IF Len(value.s) > 0 THEN <<value.s>> ELSE <<>>
    [] value.t = "arr" ->
         Flatten([i \in 1..Len(value.a) |-> extractTextCandidates(value.a[i])])
    [] value.t = "obj" ->
         Flatten([i \in 1..Len(CandidateKeys) |->
                    extractTextCandidates(Get(value, CandidateKeys[i]))])
    [] OTHER -> <<>>

\* the push of lines 81-91 and 96, 109, 113: v when it is a non-empty string
NonEmptyStr(v) == IF v.t = "str" /\ Len(v.s) > 0 THEN <<v.s>> ELSE <<>>

\* ChoiceTexts that takes a choice's text before its delta
ChoiceTexts_TextFirst(choice) ==
  IF ~IsObjectLike(choice) THEN <<>>
  ELSE LET choiceDelta == Get(choice, "delta")
       IN NonEmptyStr(Get(choice, "text"))
          \o (IF IsObjectLike(choiceDelta)
                THEN NonEmptyStr(Get(choiceDelta, "content")) ELSE <<>>)

\* one iteration of the loop over choices (lines 103-116)
ChoiceTexts(choice) ==
  IF ~IsObjectLike(choice) THEN <<>>
  ELSE LET choiceDelta == Get(choice, "delta")
       IN (IF IsObjectLike(choiceDelta)
             THEN NonEmptyStr(Get(choiceDelta, "content")) ELSE <<>>)
          \o NonEmptyStr(Get(choice, "text"))

extractDeltaText(value) ==
  IF ~IsObjectLike(value) THEN <<>>
  ELSE LET delta == Get(value, "delta")
           choices == Get(value, "choices")
       IN NonEmptyStr(Get(value, "response"))
          \o NonEmptyStr(Get(value, "output_text"))
          \o NonEmptyStr(Get(value, "text"))
          \o (IF IsObjectLike(delta) THEN NonEmptyStr(Get(delta, "content")) ELSE <<>>)
          \o (IF IsArr(choices)
                THEN Flatten([i \in 1..Len(choices.a) |-> ChoiceTexts(choices.a[i])])
                ELSE <<>>)

RECURSIVE JoinStr(_)
JoinStr(ss) == IF ss = <<>> THEN "" ELSE Head(ss) \o JoinStr(Tail(ss))

\* the map callback of lines 299-306
OutputItemText(item) ==
  IF item.t = "str" THEN item.s
  ELSE IF IsObjectLike(item) /\ Get(item, "text").t = "str" THEN Get(item, "text").s
  ELSE ""

\* line 287: the read of result.response throws a TypeError when the result
\* is null or undefined
ExtractionThrows(result) == result.t \in {"null", "undef"}

\* the TypeError of that read
ExtractionError ==
  [t |-> "thrown", isError |-> TRUE,
   message |-> "Cannot read properties of null (reading 'response')"]

extractTextFromAiResult(result) ==
  LET resultContainer == Get(result, "result")
      output == Get(result, "output")
      text == IF IsArr(output)
                THEN Trim(JoinStr([i \in 1..Len(output.a) |-> OutputItemText(output.a[i])]))
                ELSE ""
  IN IF Get(result, "response").t = "str" THEN Get(result, "response").s
     ELSE IF IsObjectLike(resultContainer) /\ Get(resultContainer, "response").t = "str"
       THEN Get(resultContainer, "response").s
     ELSE IF IsObjectLike(resultContainer) /\ Get(resultContainer, "output_text").t = "str"
       THEN Get(resultContainer, "output_text").s
     ELSE IF text # "" THEN text
     ELSE JSONStringify(result)

(***************************************************************************)
(* Usage extraction.  A `number | null` is a JNum or JNull.                *)
(***************************************************************************)
RECURSIVE AllDigits(_)
AllDigits(s) == s = "" \/ (IsDigit(Ch(s, 1)) /\ AllDigits(Slice(s, 1)))

\* Number(s) of a string: JNull stands for NaN.  Decimal integers only
\* (no fraction, exponent, radix prefix or Infinity in the modelled inputs).
StringToNumber(s) ==
  CHOOSE number \in
    {LET signed == w # "" /\ Ch(w, 1) \in {"+", "-"}
         digits == IF signed THEN Slice(w, 1) ELSE w
     IN IF w = "" THEN JNum(0)
        ELSE IF digits = "" \/ ~AllDigits(digits) THEN JNull
        ELSE LET n == ScanDigits(digits, 1, 0).n
             IN JNum(IF Ch(w, 1) = "-" THEN 0 - n ELSE n) : w \in {Trim(s)}} : TRUE

toNumber(value) ==
  CHOOSE parsed \in
    {IF v.t = "num" THEN v
     ELSE IF v.t = "str" THEN StringToNumber(v.s)
     ELSE JNull : v \in {value}} : TRUE

\* a ?? b
Coalesce(a, b) ==
  CHOOSE value \in {IF left.t \in {"null", "undef"} THEN b ELSE left : left \in {a}} : TRUE

\* toNumber(source[k1]) ?? toNumber(source[k2]) ?? ... for the keys k1, k2, ...
RECURSIVE FirstNumber(_, _)
FirstNumber(source, keys) ==
  IF Len(keys) = 1 THEN toNumber(Get(source, keys[1]))
  ELSE Coalesce(toNumber(Get(source, Head(keys))), FirstNumber(source, Tail(keys)))

\* lines 242-253: the usage record made of the prompt and the completion
\* tokens and of `total`, the total the source itself gives
UsageOf(promptTokens, completionTokens, total) ==
  LET sum == IF promptTokens # JNull /\ completionTokens # JNull
               THEN JNum(promptTokens.n + completionTokens.n) ELSE JNull
      totalTokens == Coalesce(total, sum)
      hasAny == promptTokens # JNull \/ completionTokens # JNull \/ totalTokens # JNull
  IN IF ~hasAny THEN JNull
     ELSE [prompt_tokens |-> Coalesce(promptTokens, JNum(0)).n,
           completion_tokens |-> Coalesce(completionTokens, JNum(0)).n,
           total_tokens |-> Coalesce(totalTokens,
                                     IF sum # JNull THEN sum ELSE JNum(0)).n]

\* getUsageFromObject(source): JNull, or the usage record
getUsageFromObject(source) ==
  CHOOSE usage \in
    {UsageOf(promptTokens, completionTokens, total) :
       promptTokens \in
         {FirstNumber(source, <<"prompt_tokens", "input_tokens",
                                "promptTokens", "inputTokens">>)},
       completionTokens \in
         {FirstNumber(source, <<"completion_tokens", "output_tokens",
                                "completionTokens", "outputTokens">>)},
       total \in {FirstNumber(source, <<"total_tokens", "totalTokens">>)}} : TRUE

ZeroUsage == [prompt_tokens |-> 0, completion_tokens |-> 0, total_tokens |-> 0]

\* lines 270-280: the usage of the object under `result`
UsageOfNested(nestedObject) ==
  CHOOSE usage \in
    {IF nestedDirect # JNull THEN nestedDirect
     ELSE IF IsObjectLike(nestedUsage) /\ getUsageFromObject(nestedUsage) # JNull
       THEN getUsageFromObject(nestedUsage)
     ELSE ZeroUsage :
       nestedDirect \in {getUsageFromObject(nestedObject)},
       nestedUsage \in {Get(nestedObject, "usage")}} : TRUE

extractUsageFromAiResult(result) ==
  CHOOSE usage \in
    {IF direct # JNull THEN direct
     ELSE IF IsObjectLike(directUsage) /\ getUsageFromObject(directUsage) # JNull
       THEN getUsageFromObject(directUsage)
     ELSE IF ~IsObjectLike(nested) THEN ZeroUsage
     ELSE UsageOfNested(nested) :
       direct \in {getUsageFromObject(result)},
       directUsage \in {Get(result, "usage")},
       nested \in {Get(result, "result")}} : TRUE

(***************************************************************************)
(* Bytes and the streaming TextDecoder.  A byte sequence is a string over  *)
(* ASCII plus two bytes of a two-byte UTF-8 character: "^" stands for the  *)
(* lead byte and "~" for the continuation byte.  In decoded text "@" is    *)
(* that character and "?" is U+FFFD.                                       *)
(***************************************************************************)
LeadByte == "^"
ContByte == "~"
TwoByteChar == "@"
Replacement == "?"

\* the first position from lo on of bytes that holds a byte of the two-byte
\* character, 0 when none
FirstMultiByte(bytes, lo) ==
  LET at == {i \in lo..Len(bytes) : Ch(bytes, i) \in {LeadByte, ContByte}}
  IN IF at = {} THEN 0 ELSE MinOf(at)

\* The text the decoder gives out on the bytes from position lo on, `held`
\* telling whether it holds back a lead byte.  A held-back lead byte is
\* completed by a continuation byte and replaced by U+FFFD before any other
\* byte; a continuation byte with no lead byte before it is replaced by
\* U+FFFD; ASCII bytes are given out unchanged.
RECURSIVE DecodeFrom(_, _, _)
DecodeFrom(held, bytes, lo) ==
  IF lo > Len(bytes) THEN ""
  ELSE IF held
    THEN IF Ch(bytes, lo) = ContByte
           THEN TwoByteChar \o DecodeFrom(FALSE, bytes, lo + 1)
           ELSE Replacement \o DecodeFrom(FALSE, bytes, lo)
  ELSE LET k == FirstMultiByte(bytes, lo)
       IN IF k = 0 THEN SubSeq(bytes, lo, Len(bytes))
          ELSE SubSeq(bytes, lo, k - 1)
               \o (IF Ch(bytes, k) = LeadByte
                     THEN DecodeFrom(TRUE, bytes, k + 1)
                     ELSE Replacement \o DecodeFrom(FALSE, bytes, k + 1))

\* Decode without { stream: true }: nothing is held back between two calls
Decode_NoCarry(pend, bytes) ==
  [text |-> DecodeFrom(FALSE, bytes, 1), pend |-> ""]

\* decoder.decode(bytes, { stream: true }) with `pend` the bytes the decoder
\* holds back from the previous call: [text, pend]
Decode(pend, bytes) ==
  [text |-> DecodeFrom(pend = LeadByte, bytes, 1),
   pend |-> IF bytes = "" THEN pend
            ELSE IF Ch(bytes, Len(bytes)) = LeadByte THEN LeadByte ELSE ""]

(***************************************************************************)
(* The stream normalizer's processing of decoded text                      *)
(***************************************************************************)
\* emitContent without its test of the text
emitContent_NoFilter(written, id, model, text) ==
  Append(written, sseData(createChunkPayload(id, model, JStr(text), JNull)))

\* emitContent(text) on the output written so far
emitContent(written, id, model, text) ==
  IF text = "" THEN written
  ELSE Append(written, sseData(createChunkPayload(id, model, JStr(text), JNull)))

\* texts.forEach(emitContent)
RECURSIVE emitAll(_, _, _, _)
emitAll(written, id, model, texts) ==
  IF texts = <<>> THEN written
  ELSE emitAll(emitContent(written, id, model, Head(texts)), id, model, Tail(texts))

\* LineTexts with a catch block that swallows the SyntaxError
LineTexts_DropsUnparsed(line) ==
  LET raw == Trim(Slice(line, 5))
  IN IF raw = "" \/ raw = "[DONE]" THEN <<>>
     ELSE LET parsed == JSONParse(raw)
          IN IF parsed.ok THEN extractDeltaText(parsed.v) ELSE <<>>

\* the body of the loop over the `data:` lines (lines 168-179): the texts
\* handed to emitContent for one line
LineTexts(line) ==
  LET raw == Trim(Slice(line, 5))
  IN IF raw = "" \/ raw = "[DONE]" THEN <<>>
     ELSE LET parsed == JSONParse(raw)
          IN IF parsed.ok THEN extractDeltaText(parsed.v) ELSE <<raw>>

\* part.split(/\r?\n/).map(trim).filter(startsWith('data:'))
DataLines(part) ==
  LET all == SplitLines(part)
      trimmed == [i \in 1..Len(all) |-> Trim(all[i])]
  IN SelectSeq(trimmed, LAMBDA line : StartsWith(line, "data:"))

\* the body of the loop over the complete events (lines 156-180): the texts
\* handed to emitContent for one event
PartTexts(part) ==
  LET lines == DataLines(part)
  IN IF Len(lines) = 0 THEN extractTextCandidates(JStr(part))
     ELSE Flatten([i \in 1..Len(lines) |-> LineTexts(lines[i])])

\* ProcessText that leaves the events it has handled in the buffer
ProcessText_KeepsBuffer(buffer, text) ==
  LET parts == SplitBlank(buffer \o text)
      n == Len(parts)
  IN [buffer |-> buffer \o text,
      texts |-> Flatten([i \in 1..(n - 1) |-> PartTexts(parts[i])])]

\* ProcessText that splits the text of the read alone, without the buffer
ProcessText_DropsBuffer(buffer, text) ==
  LET parts == SplitBlank(text)
      n == Len(parts)
  IN [buffer |-> parts[n],
      texts |-> Flatten([i \in 1..(n - 1) |-> PartTexts(parts[i])])]

\* lines 151-181 on the decoded text of one read: [buffer, texts]
ProcessText(buffer, text) ==
  LET parts == SplitBlank(buffer \o text)
      n == Len(parts)
  IN [buffer |-> parts[n],
      texts |-> Flatten([i \in 1..(n - 1) |-> PartTexts(parts[i])])]

\* FlushTexts that gives up what is left in the buffer
FlushTexts_DropsBuffer(buffer) == <<>>

\* lines 184-189: the texts flushed from the buffer when the backend is done
FlushTexts(buffer) ==
  IF Trim(buffer) # "" THEN extractTextCandidates(JStr(buffer)) ELSE <<>>

(***************************************************************************)
(* Program constants                                                       *)
(***************************************************************************)
DEFAULT_MODEL == "@cf/meta/llama-3.1-8b-instruct"

SUPPORTED_MODELS ==
  <<"@cf/meta/llama-3.1-8b-instruct",
    "@cf/meta/llama-3.1-8b-instruct-fast",
    "@cf/meta/llama-3.1-70b-instruct",
    "@cf/meta/llama-3.3-70b-instruct-fp8-fast",
    "@cf/meta/llama-3.2-3b-instruct",
    "@cf/meta/llama-3.2-1b-instruct",
    "@cf/meta/llama-4-scout-17b-16e-instruct",
    "@cf/openai/gpt-oss-120b",
    "@cf/openai/gpt-oss-20b",
    "@cf/qwen/qwen3-30b-a3b-fp8",
    "@cf/mistral/mistral-small-3.1-24b-instruct",
    "@cf/google/gemma-3-12b-it">>

\* the terminal sentinel as the normalizer writes it (line 192) and as the
\* fallback pseudo-stream writes it (line 415, where the source text has
\* `\\n\\n`: a backslash and the letter n, twice)
SentinelText == "data: [DONE]\n\n"
FallbackSentinelText == "data: [DONE]\\n\\n"

createOpenAIError(message) ==
  [status |-> 400,
   body |-> [error |-> [message |-> message, type |-> "invalid_request_error",
                        param |-> JNull, code |-> JNull]]]

\* !v
Falsy(v) ==
  \/ v.t \in {"undef", "null"}
  \/ v.t = "bool" /\ ~v.b
  \/ v.t = "num" /\ v.n = 0
  \/ v.t = "str" /\ v.s = ""

(***************************************************************************)
(* Bounds and inputs                                                       *)
(***************************************************************************)
\* the requests of a behaviour
Reqs == {1}

\* events in a backend stream, reads of a backend stream that deliver a string
MaxEvents == 2
MaxStrReads == 1

RequestId(r) == "chatcmpl-" \o NatToStr(r)

\* c.env.AUTH_TOKEN and the Authorization header
Tokens == {"", "secret"}
AuthHeaders ==
  {JUndef, JStr("Bearer secret"), JStr("Bearer  secret "), JStr("Bearer wrong"),
   JStr("secret"), JStr("Bearer ")}

Routes ==
  {"GET /", "GET /v1/models", "GET /models", "POST /v1/chat/completions",
   "POST /chat", "POST /chat/completions"}

Msg(role, content) == JObj(<<KV("role", role), KV("content", content)>>)

\* message lists the validation accepts
ValidMessages ==
  {JArr(<<Msg(JStr("system"), JStr(" be brief ")), Msg(JStr("user"), JStr("hi"))>>),
   JArr(<<Msg(JNum(5), JStr("hi"))>>)}

\* values of `messages` the validation rejects as not a non-empty array
EmptyMessages == {JUndef, JNull, JStr("hi"), JObj(<<>>), JArr(<<>>)}

\* message lists with a message the validation rejects
InvalidMessages ==
  {JArr(<<Msg(JStr("user"), JStr("  \n"))>>),
   JArr(<<Msg(JStr("user"), JStr(""))>>),
   JArr(<<Msg(JStr("user"), JNum(7))>>),
   JArr(<<JObj(<<KV("role", JStr("user"))>>)>>),
   JArr(<<JObj(<<KV("content", JStr("hi"))>>)>>),
   JArr(<<Msg(JStr(""), JStr("hi"))>>),
   JArr(<<Msg(JNull, JStr("hi"))>>),
   JArr(<<JNull>>),
   JArr(<<Msg(JStr("user"), JStr("hi")), Msg(JStr("user"), JStr(" "))>>)}

BodyModels == {JUndef, JStr("@cf/openai/gpt-oss-20b")}
BodyStreams == {JUndef, JBool(FALSE), JBool(TRUE)}

\* what c.req.json() yields: a thrown SyntaxError, the value of the body
\* `null`, or the body object
Bodies ==
  {[ok |-> FALSE, v |-> JUndef], [ok |-> TRUE, v |-> JNull]} \cup
  {[ok |-> TRUE,
    v |-> JObj(<<KV("model", m), KV("messages", ms), KV("stream", s)>>)] :
     m \in BodyModels, ms \in ValidMessages \cup EmptyMessages \cup InvalidMessages,
     s \in BodyStreams}

\* results of a backend call that are not streams
BackendResults ==
  {JNull,
   JObj(<<KV("response", JStr("top")),
          KV("result", JObj(<<KV("response", JStr("r")), KV("output_text", JStr("x")),
                              KV("total_tokens", JNum(7))>>)),
          KV("output", JArr(<<JStr("o")>>)),
          KV("completion_tokens", JNum(2)),
          KV("usage", JObj(<<KV("prompt_tokens", JNum(3)),
                             KV("completion_tokens", JNum(5))>>))>>),
   JObj(<<KV("result", JObj(<<KV("response", JNum(5)), KV("output_text", JStr("x"))>>)),
          KV("output", JArr(<<JStr("o")>>)),
          KV("usage", JObj(<<KV("promptTokens", JStr("-3")),
                             KV("outputTokens", JNum(5))>>))>>),
   JObj(<<KV("response", JStr("hi"))>>),
   JObj(<<KV("response", JStr("")),
          KV("usage", JObj(<<KV("prompt_tokens", JNum(3)),
                             KV("completion_tokens", JNum(5))>>))>>),
   JObj(<<KV("result", JObj(<<KV("output_text", JStr("x")),
                              KV("usage", JObj(<<KV("input_tokens", JStr("10"))>>))>>))>>),
   JObj(<<KV("result", JObj(<<KV("response", JStr("r"))>>)),
          KV("total_tokens", JNum(9))>>),
   JObj(<<KV("output", JArr(<<JObj(<<KV("text", JStr(" a"))>>), JStr("b "), JNull>>))>>),
   JObj(<<KV("response", JNum(5)), KV("output", JArr(<<>>))>>),
   JObj(<<>>)}

\* what a failing backend call throws: an Error with a message, or a value
\* that is not an Error
Thrown ==
  {[t |-> "thrown", isError |-> TRUE, message |-> "AI down"],
   [t |-> "thrown", isError |-> FALSE, message |-> ""]}

\* What a backend byte stream is made of: complete events (each ends in a
\* blank line) and, last, two pieces no blank line ends.
Events ==
  <<"data: {\"response\":\"a\"}\n\n",
    "data:{\"response\":\"^~\"}\r\n\r\n",
    "data: [DONE]\n\n",
    "data: {b\n: c\n data: ok \n\n",
    "data: {\"text\":\"\"}\n\n",
    "hey\n\r\n",
    "data: {\"text\":\"c\"}",
    " \n">>

RECURSIVE SeqsUpTo(_, _)
SeqsUpTo(S, n) ==
  IF n = 0 THEN {<<>>}
  ELSE LET shorter == SeqsUpTo(S, n - 1)
       IN shorter \cup {Append(q, x) : q \in shorter, x \in S}

\* the byte sequence made of the events q names
WireOf(q) == JoinStr([i \in 1..Len(q) |-> Events[q[i]]])

\* an event whose payload holds a text in each of the fields extractDeltaText
\* reads of the payload itself, one whose payload holds `choices` and a
\* `text`, and one whose payloads hold a text in no place it looks at
DeltaEvent ==
  "data: {\"text\":\"t\",\"delta\":{\"content\":\"d\"},"
    \o "\"output_text\":\"o\",\"response\":\"r\"}\n\n"
ChoicesEvent ==
  "data: {\"choices\":[{\"text\":\"x\",\"delta\":{\"content\":\"y\"}},"
    \o "7,{\"text\":\"z\"}],\"text\":\"t\"}\n\n"
NoDeltaEvent ==
  "data: 7\ndata: {\"content\":\"c\",\"text\":\"\",\"delta\":\"d\"}\ndata: [\"a\"]\n\n"

\* the byte sequences a backend stream delivers: up to MaxEvents of the events
\* above, or one of the three events with the fields extractDeltaText reads
Wires ==
  {WireOf(q) : q \in SeqsUpTo(1..Len(Events), MaxEvents)}
    \cup {DeltaEvent, ChoicesEvent, NoDeltaEvent}

\* the byte sequences of the backend streams of the request-level
\* specification
CoreWires == {"", Events[1], Events[7]}

\* the ReadableStream a backend call returns, delivering the bytes `wire`
Stream(wire) == [t |-> "stream", wire |-> wire]
IsStream(v) == v.t = "stream"

\* values a backend stream read delivers that are strings or objects
StringReads == {"s", ""}
ObjectReads == {JObj(<<KV("response", JStr("o"))>>)}
ReadErrors == {"connection reset", "timed out"}

(***************************************************************************)
(* State                                                                   *)
(***************************************************************************)
VARIABLES
  pc,         \* where each request's task stands: "idle", "gate", "handler",
              \* "run" (awaiting AI.run), "reading" (the normalizer's loop), "done"
  req,        \* the request: [token, auth, route]
  body,       \* what c.req.json() gave the handler: [ok, v]
  resp,       \* the HTTP response returned, NoResp before
  aiCalls,    \* the calls of c.env.AI.run made for the request, in order
  aiResult,   \* what AI.run resolved with or threw, JUndef before
  model,      \* the handler's `model`
  streamMode, \* whether body.stream was truthy
  wire,       \* the bytes the backend stream delivers in all
  pos,        \* how many of them have been read
  pend,       \* the bytes the TextDecoder holds back
  buffer,     \* the normalizer's `buffer`
  written,    \* what has been enqueued on the output stream's controller
  ctl,        \* the output stream: "none", "open", "closed", "errored"
  ctlError,   \* the error the output stream carries
  locked,     \* whether the reader holds the backend stream's lock
  carried,    \* whether a read has left an unfinished event in the buffer
  strReads,   \* the strings that backend reads have delivered, in order
  readError   \* what a failed backend read rejected with, "" when none failed

vars ==
  <<pc, req, body, resp, aiCalls, aiResult, model, streamMode, wire, pos, pend, buffer, written,
    ctl, ctlError, locked, carried, strReads, readError>>

handlerVars == <<body, model, streamMode>>
streamVars == <<wire, pos, pend, buffer, written, ctl, ctlError, locked,
                carried, strReads, readError>>

NoResp == [status |-> 0, kind |-> "none"]
NoReq == [token |-> "", auth |-> JUndef, route |-> ""]
NoBody == [ok |-> FALSE, v |-> JUndef]

Json(status, payload) == [status |-> status, kind |-> "json", body |-> payload]
Redirect(location) == [status |-> 307, kind |-> "redirect", location |-> location]

\* new Response(stream, { headers }) of lines 420-426 and 430-436
SseResponse ==
  [status |-> 200, kind |-> "sse",
   contentType |-> "text/event-stream; charset=utf-8"]

Init ==
  /\ pc = [r \in Reqs |-> "idle"]
  /\ req = [r \in Reqs |-> NoReq]
  /\ body = [r \in Reqs |-> NoBody]
  /\ resp = [r \in Reqs |-> NoResp]
  /\ aiCalls = [r \in Reqs |-> <<>>]
  /\ aiResult = [r \in Reqs |-> JUndef]
  /\ model = [r \in Reqs |-> JUndef]
  /\ streamMode = [r \in Reqs |-> FALSE]
  /\ wire = [r \in Reqs |-> ""]
  /\ pos = [r \in Reqs |-> 0]
  /\ pend = [r \in Reqs |-> ""]
  /\ buffer = [r \in Reqs |-> ""]
  /\ written = [r \in Reqs |-> <<>>]
  /\ ctl = [r \in Reqs |-> "none"]
  /\ ctlError = [r \in Reqs |-> ""]
  /\ locked = [r \in Reqs |-> FALSE]
  /\ carried = [r \in Reqs |-> FALSE]
  /\ strReads = [r \in Reqs |-> <<>>]
  /\ readError = [r \in Reqs |-> ""]

(***************************************************************************)
(* The authentication gate and the routes                                  *)
(***************************************************************************)
\* a request arrives
Receive(r) ==
  /\ pc[r] = "idle"
  /\ \E token \in Tokens, auth \in AuthHeaders, route \in Routes :
       req' = [req EXCEPT ![r] = [token |-> token, auth |-> auth, route |-> route]]
  /\ pc' = [pc EXCEPT ![r] = "gate"]
  /\ UNCHANGED <<resp, aiCalls, aiResult, handlerVars, streamVars>>

\* lines 323-325: the token the request carries
RequestToken(authHeader) ==
  IF authHeader.t = "str" /\ StartsWith(authHeader.s, "Bearer ")
    THEN Trim(Slice(authHeader.s, 7)) ELSE ""

\* GateResponse that takes any bearer token for the configured one
GateResponse_AnyBearer(configuredToken, authHeader) ==
  IF configuredToken = ""
    THEN Json(500, [error |-> "Server is missing AUTH_TOKEN configuration."])
  ELSE IF RequestToken(authHeader) = ""
    THEN Json(401, [error |-> "Unauthorized"])
  ELSE NoResp

\* the middleware's answer, NoResp when it calls next()
GateResponse(configuredToken, authHeader) ==
  IF configuredToken = ""
    THEN Json(500, [error |-> "Server is missing AUTH_TOKEN configuration."])
  ELSE IF RequestToken(authHeader) = "" \/ RequestToken(authHeader) # configuredToken
    THEN Json(401, [error |-> "Unauthorized"])
  ELSE NoResp

AuthGate(r) ==
  /\ pc[r] = "gate"
  /\ LET answer == GateResponse(req[r].token, req[r].auth)
     IN IF answer # NoResp
          THEN /\ resp' = [resp EXCEPT ![r] = answer]
               /\ pc' = [pc EXCEPT ![r] = "done"]
          ELSE /\ pc' = [pc EXCEPT ![r] = "handler"]
               /\ UNCHANGED resp
  /\ UNCHANGED <<req, aiCalls, aiResult, handlerVars, streamVars>>

RootBody ==
  [name |-> "cloudflare-llm-ms", status |-> "ok",
   endpoints |-> [models |-> "GET /v1/models",
                  chatCompletions |-> "POST /v1/chat/completions"]]

ModelList ==
  [object |-> "list",
   data |-> [i \in 1..Len(SUPPORTED_MODELS) |->
               [id |-> SUPPORTED_MODELS[i], object |-> "model", created |-> 0,
                owned_by |-> "cloudflare-workers-ai"]]]

\* a handler that answers at once
Answer(r, route, answer) ==
  /\ pc[r] = "handler"
  /\ req[r].route = route
  /\ resp' = [resp EXCEPT ![r] = answer]
  /\ pc' = [pc EXCEPT ![r] = "done"]
  /\ UNCHANGED <<req, aiCalls, aiResult, handlerVars, streamVars>>

GetRoot(r) == Answer(r, "GET /", Json(200, RootBody))
GetModels(r) == Answer(r, "GET /v1/models", Json(200, ModelList))
GetModelsAlias(r) == Answer(r, "GET /models", Redirect("/v1/models"))
PostChatAlias(r) == Answer(r, "POST /chat", Redirect("/v1/chat/completions"))
PostChatCompletionsAlias(r) ==
  Answer(r, "POST /chat/completions", Redirect("/v1/chat/completions"))

(***************************************************************************)
(* POST /v1/chat/completions                                               *)
(***************************************************************************)
\* line 375
ModelOf(parsedBody) == Coalesce(Get(parsedBody, "model"), JStr(DEFAULT_MODEL))

\* line 376
MessagesOf(parsedBody) ==
  IF IsArr(Get(parsedBody, "messages")) THEN Get(parsedBody, "messages") ELSE JArr(<<>>)

\* the callback of messages.some (line 385)
InvalidMessage(message) ==
  \/ Get(message, "content").t # "str"
  \/ Trim(Get(message, "content").s) = ""
  \/ Falsy(Get(message, "role"))

hasInvalidMessage(messages) ==
  \E i \in 1..Len(messages.a) : InvalidMessage(messages.a[i])

\* lines 368-391: the 400 answer, NoResp when the request passes. `parsed`
\* is what c.req.json() gave.  (The messages' backquotes are written '.)
ValidationResponse(parsed) ==
  IF ~parsed.ok
    THEN Json(400, createOpenAIError("Invalid JSON body.").body)
  ELSE IF Len(MessagesOf(parsed.v).a) = 0
    THEN Json(400, createOpenAIError("'messages' must be a non-empty array.").body)
  ELSE IF hasInvalidMessage(MessagesOf(parsed.v))
    THEN Json(400, createOpenAIError(
           "Each message must include string 'role' and non-empty string 'content'.").body)
  ELSE NoResp

\* the argument of AI.run: { messages, stream: true } or { messages }
RunInputs(messages, stream) ==
  IF stream THEN JObj(<<KV("messages", messages), KV("stream", JBool(TRUE))>>)
  ELSE JObj(<<KV("messages", messages)>>)

\* The answer to a request whose handler throws outside its try blocks: the
\* framework's error handler answers 500 with a plain text.
Unhandled == [status |-> 500, kind |-> "text", text |-> "Internal Server Error"]

\* line 375 reads body.model, which throws a TypeError when the body is null
ReadsOfBodyThrow(parsed) == parsed.ok /\ parsed.v = JNull

\* lines 362-395 and 439: the handler up to its await of AI.run
ChatCompletions(r) ==
  /\ pc[r] = "handler"
  /\ req[r].route = "POST /v1/chat/completions"
  /\ \E parsed \in Bodies :
       LET answer == IF ReadsOfBodyThrow(parsed) THEN Unhandled
                     ELSE ValidationResponse(parsed)
           stream == ~Falsy(Get(parsed.v, "stream"))
       IN /\ body' = [body EXCEPT ![r] = parsed]
          /\ IF answer # NoResp
               THEN /\ resp' = [resp EXCEPT ![r] = answer]
                    /\ pc' = [pc EXCEPT ![r] = "done"]
                    /\ UNCHANGED <<aiCalls, model, streamMode>>
               ELSE /\ model' = [model EXCEPT ![r] = ModelOf(parsed.v)]
                    /\ streamMode' = [streamMode EXCEPT ![r] = stream]
                    /\ aiCalls' = [aiCalls EXCEPT ![r] =
                         Append(@, [model |-> ModelOf(parsed.v),
                                    inputs |-> RunInputs(MessagesOf(parsed.v), stream)])]
                    /\ pc' = [pc EXCEPT ![r] = "run"]
                    /\ UNCHANGED resp
  /\ UNCHANGED <<req, aiResult, streamVars>>

\* ServerError that always gives the default message
ServerError_DefaultMessage(thrown) ==
  Json(500, [error |-> [message |-> "Workers AI call failed.",
                        type |-> "server_error", param |-> JNull, code |-> JNull]])

\* lines 461-473: the answer to a thrown error
ServerError(thrown) ==
  Json(500, [error |-> [message |-> IF thrown.isError THEN thrown.message
                                    ELSE "Workers AI call failed.",
                        type |-> "server_error", param |-> JNull, code |-> JNull]])

\* RunThrows with a handler that starts over after the failure
RunThrows_Retries(r) ==
  /\ pc[r] = "run"
  /\ \E thrown \in Thrown :
       /\ aiResult' = [aiResult EXCEPT ![r] = thrown]
       /\ resp' = [resp EXCEPT ![r] = ServerError(thrown)]
  /\ pc' = [pc EXCEPT ![r] = "handler"]
  /\ UNCHANGED <<req, aiCalls, handlerVars, streamVars>>

\* AI.run rejects
RunThrows(r) ==
  /\ pc[r] = "run"
  /\ \E thrown \in Thrown :
       /\ aiResult' = [aiResult EXCEPT ![r] = thrown]
       /\ resp' = [resp EXCEPT ![r] = ServerError(thrown)]
  /\ pc' = [pc EXCEPT ![r] = "done"]
  /\ UNCHANGED <<req, aiCalls, handlerVars, streamVars>>

\* Completion that reads the usage from the top level of the result only
Completion_DirectUsageOnly(id, m, result) ==
  [id |-> id,
   object |-> "chat.completion",
   model |-> m,
   choices |-> <<[index |-> 0,
                  message |-> [role |-> "assistant",
                               content |-> extractTextFromAiResult(result)],
                  finish_reason |-> "stop"]>>,
   usage |-> IF getUsageFromObject(result) # JNull THEN getUsageFromObject(result)
             ELSE ZeroUsage]

\* lines 440-460: the chat.completion object
Completion(id, m, result) ==
  [id |-> id,
   object |-> "chat.completion",
   model |-> m,
   choices |-> <<[index |-> 0,
                  message |-> [role |-> "assistant",
                               content |-> extractTextFromAiResult(result)],
                  finish_reason |-> "stop"]>>,
   usage |-> extractUsageFromAiResult(result)]

\* AI.run resolves for a request without stream
Complete(r) ==
  /\ pc[r] = "run"
  /\ ~streamMode[r]
  /\ \E result \in BackendResults :
       /\ aiResult' = [aiResult EXCEPT ![r] = result]
       /\ resp' = [resp EXCEPT ![r] =
            IF ExtractionThrows(result) THEN ServerError(ExtractionError)
            ELSE Json(200, Completion(RequestId(r), model[r], result))]
  /\ pc' = [pc EXCEPT ![r] = "done"]
  /\ UNCHANGED <<req, aiCalls, handlerVars, streamVars>>

\* lines 397-406: the stream in what AI.run returned, JNull when there is none
AiStreamOf(streamedResult) ==
  IF IsStream(streamedResult) THEN streamedResult
  ELSE IF IsObjectLike(streamedResult) /\ IsStream(Get(streamedResult, "response"))
    THEN Get(streamedResult, "response")
  ELSE JNull

\* lines 413-416: what the pseudo-stream's start() enqueues
FallbackWrites(id, m, fallbackText) ==
  <<sseData(createChunkPayload(id, m, JStr(fallbackText), JNull)),
    sseData(createChunkPayload(id, m, JNull, JStr("stop"))),
    RawText(FallbackSentinelText)>>

\* AI.run resolves with no stream for a request with stream: lines 408-427
StreamFallback(r) ==
  /\ pc[r] = "run"
  /\ streamMode[r]
  /\ \E streamedResult \in BackendResults :
       /\ AiStreamOf(streamedResult) = JNull
       /\ aiResult' = [aiResult EXCEPT ![r] = streamedResult]
       /\ IF ExtractionThrows(streamedResult)
            THEN /\ resp' = [resp EXCEPT ![r] = ServerError(ExtractionError)]
                 /\ UNCHANGED <<written, ctl>>
            ELSE /\ written' = [written EXCEPT ![r] =
                      FallbackWrites(RequestId(r), model[r],
                                     extractTextFromAiResult(streamedResult))]
                 /\ ctl' = [ctl EXCEPT ![r] = "closed"]
                 /\ resp' = [resp EXCEPT ![r] = SseResponse]
  /\ pc' = [pc EXCEPT ![r] = "done"]
  /\ UNCHANGED <<req, aiCalls, handlerVars, wire, pos, pend, buffer, ctlError, locked,
                 carried, strReads, readError>>

\* the values AI.run resolves with that hold a stream: the stream itself or
\* an object with the stream as its `response`
StreamResults(w) == {Stream(w), JObj(<<KV("response", Stream(w))>>)}

\* AI.run resolves with a stream for a request with stream: lines 429-436
\* and 127-134 (the normalizer takes the reader and the response is returned)
StreamStart(r, results) ==
  /\ pc[r] = "run"
  /\ streamMode[r]
  /\ \E streamedResult \in results :
       /\ AiStreamOf(streamedResult) # JNull
       /\ aiResult' = [aiResult EXCEPT ![r] = streamedResult]
       /\ wire' = [wire EXCEPT ![r] = AiStreamOf(streamedResult).wire]
  /\ locked' = [locked EXCEPT ![r] = TRUE]
  /\ ctl' = [ctl EXCEPT ![r] = "open"]
  /\ resp' = [resp EXCEPT ![r] = SseResponse]
  /\ pc' = [pc EXCEPT ![r] = "reading"]
  /\ UNCHANGED <<req, aiCalls, handlerVars, pos, pend, buffer, written, ctlError,
                 carried, strReads, readError>>

(***************************************************************************)
(* The stream normalizer: one action for each outcome of reader.read()     *)
(***************************************************************************)
\* ReadBytes with the pending buffer kept in one variable of the module that
\* every pass shares
ReadBytes_SharedBuffer(r) ==
  /\ pc[r] = "reading"
  /\ pos[r] < Len(wire[r])
  /\ \E n \in 1..(Len(wire[r]) - pos[r]) :
       LET decoded == Decode(pend[r], SubSeq(wire[r], pos[r] + 1, pos[r] + n))
           step == ProcessText(buffer[r], decoded.text)
       IN /\ pend' = [pend EXCEPT ![r] = decoded.pend]
          /\ buffer' = [q \in DOMAIN buffer |-> step.buffer]
          /\ written' = [written EXCEPT ![r] =
               emitAll(@, RequestId(r), model[r], step.texts)]
          /\ pos' = [pos EXCEPT ![r] = @ + n]
  /\ carried' = [carried EXCEPT ![r] = @ \/ buffer'[r] # ""]
  /\ UNCHANGED <<pc, req, resp, aiCalls, aiResult, handlerVars, wire, ctl, ctlError, locked,
                 strReads, readError>>

\* the read delivers bytes: lines 151-181
ReadBytes(r) ==
  /\ pc[r] = "reading"
  /\ pos[r] < Len(wire[r])
  /\ \E n \in 1..(Len(wire[r]) - pos[r]) :
       LET decoded == Decode(pend[r], SubSeq(wire[r], pos[r] + 1, pos[r] + n))
           step == ProcessText(buffer[r], decoded.text)
       IN /\ pend' = [pend EXCEPT ![r] = decoded.pend]
          /\ buffer' = [buffer EXCEPT ![r] = step.buffer]
          /\ written' = [written EXCEPT ![r] =
               emitAll(@, RequestId(r), model[r], step.texts)]
          /\ pos' = [pos EXCEPT ![r] = @ + n]
  /\ carried' = [carried EXCEPT ![r] = @ \/ buffer'[r] # ""]
  /\ UNCHANGED <<pc, req, resp, aiCalls, aiResult, handlerVars, wire, ctl, ctlError, locked,
                 strReads, readError>>

\* ReadString that appends the string to the buffer and emits nothing
ReadString_ThroughBuffer(r) ==
  /\ pc[r] = "reading"
  /\ Len(strReads[r]) < MaxStrReads
  /\ \E value \in StringReads :
       /\ buffer' = [buffer EXCEPT ![r] = @ \o value]
       /\ strReads' = [strReads EXCEPT ![r] = Append(@, value)]
  /\ UNCHANGED <<pc, req, resp, aiCalls, aiResult, handlerVars, wire, pos, pend, written, ctl,
                 ctlError, locked, carried, readError>>

\* the read delivers a string: lines 146-149
ReadString(r) ==
  /\ pc[r] = "reading"
  /\ Len(strReads[r]) < MaxStrReads
  /\ \E value \in StringReads :
       /\ written' = [written EXCEPT ![r] = emitContent(@, RequestId(r), model[r], value)]
       /\ strReads' = [strReads EXCEPT ![r] = Append(@, value)]
  /\ UNCHANGED <<pc, req, resp, aiCalls, aiResult, handlerVars, wire, pos, pend, buffer, ctl,
                 ctlError, locked, carried, readError>>

\* Abort with a catch block that closes the output instead
Abort_Closes(r, error) ==
  /\ ctl' = [ctl EXCEPT ![r] = "closed"]
  /\ ctlError' = [ctlError EXCEPT ![r] = ""]
  /\ locked' = [locked EXCEPT ![r] = FALSE]
  /\ pc' = [pc EXCEPT ![r] = "done"]

\* lines 194-198: catch (error) { controller.error(error) } finally
\* { reader.releaseLock() }
Abort(r, error) ==
  /\ ctl' = [ctl EXCEPT ![r] = "errored"]
  /\ ctlError' = [ctlError EXCEPT ![r] = error]
  /\ locked' = [locked EXCEPT ![r] = FALSE]
  /\ pc' = [pc EXCEPT ![r] = "done"]

\* the read delivers an object that is neither a string nor bytes: line 151,
\* where decoder.decode throws a TypeError for what is no buffer
ReadObject(r) ==
  /\ pc[r] = "reading"
  /\ \E value \in ObjectReads : Abort(r, "TypeError")
  /\ UNCHANGED <<req, resp, aiCalls, aiResult, handlerVars, wire, pos, pend, buffer, written,
                 carried, strReads, readError>>

\* reader.read() rejects
ReadFails(r) ==
  /\ pc[r] = "reading"
  /\ \E error \in ReadErrors :
       /\ readError' = [readError EXCEPT ![r] = error]
       /\ Abort(r, error)
  /\ UNCHANGED <<req, resp, aiCalls, aiResult, handlerVars, wire, pos, pend, buffer, written,
                 carried, strReads>>

\* lines 184-192: what is enqueued once the loop has ended
FinalWrites(done, id, m, buf) ==
  emitAll(done, id, m, FlushTexts(buf))
    \o <<sseData(createChunkPayload(id, m, JNull, JStr("stop"))), RawText(SentinelText)>>

\* the read reports done: lines 144 and 184-193, then the finally block
ReadDone(r) ==
  /\ pc[r] = "reading"
  /\ pos[r] = Len(wire[r])
  /\ written' = [written EXCEPT ![r] = FinalWrites(@, RequestId(r), model[r], buffer[r])]
  /\ ctl' = [ctl EXCEPT ![r] = "closed"]
  /\ locked' = [locked EXCEPT ![r] = FALSE]
  /\ pc' = [pc EXCEPT ![r] = "done"]
  /\ UNCHANGED <<req, resp, aiCalls, aiResult, handlerVars, wire, pos, pend, buffer, ctlError,
                 carried, strReads, readError>>

Next ==
  \E r \in Reqs :
    \/ Receive(r)
    \/ AuthGate(r)
    \/ GetRoot(r)
    \/ GetModels(r)
    \/ GetModelsAlias(r)
    \/ PostChatAlias(r)
    \/ PostChatCompletionsAlias(r)
    \/ ChatCompletions(r)
    \/ RunThrows(r)
    \/ Complete(r)
    \/ StreamFallback(r)
    \/ StreamStart(r, UNION {StreamResults(w) : w \in CoreWires})
    \/ ReadBytes(r)
    \/ ReadString(r)
    \/ ReadObject(r)
    \/ ReadFails(r)
    \/ ReadDone(r)

Spec == Init /\ [][Next]_vars

(***************************************************************************)
(* The normalizer alone: a valid request with stream: true and the default *)
(* model has called AI.run, which returns any of the backend streams.      *)
(***************************************************************************)
StreamingBody ==
  [ok |-> TRUE,
   v |-> JObj(<<KV("model", JUndef),
                KV("messages", JArr(<<Msg(JNum(5), JStr("hi"))>>)),
                KV("stream", JBool(TRUE))>>)]

StreamingCall ==
  [model |-> ModelOf(StreamingBody.v),
   inputs |-> RunInputs(MessagesOf(StreamingBody.v), TRUE)]

InitStream ==
  /\ pc = [r \in Reqs |-> "run"]
  /\ req = [r \in Reqs |->
             [token |-> "secret", auth |-> JStr("Bearer secret"),
              route |-> "POST /v1/chat/completions"]]
  /\ body = [r \in Reqs |-> StreamingBody]
  /\ resp = [r \in Reqs |-> NoResp]
  /\ aiCalls = [r \in Reqs |-> <<StreamingCall>>]
  /\ aiResult = [r \in Reqs |-> JUndef]
  /\ model = [r \in Reqs |-> JStr(DEFAULT_MODEL)]
  /\ streamMode = [r \in Reqs |-> TRUE]
  /\ wire = [r \in Reqs |-> ""]
  /\ pos = [r \in Reqs |-> 0]
  /\ pend = [r \in Reqs |-> ""]
  /\ buffer = [r \in Reqs |-> ""]
  /\ written = [r \in Reqs |-> <<>>]
  /\ ctl = [r \in Reqs |-> "none"]
  /\ ctlError = [r \in Reqs |-> ""]
  /\ locked = [r \in Reqs |-> FALSE]
  /\ carried = [r \in Reqs |-> FALSE]
  /\ strReads = [r \in Reqs |-> <<>>]
  /\ readError = [r \in Reqs |-> ""]

NextStream ==
  \E r \in Reqs :
    \/ StreamStart(r, {Stream(w) : w \in Wires})
    \/ ReadBytes(r)
    \/ ReadString(r)
    \/ ReadObject(r)
    \/ ReadFails(r)
    \/ ReadDone(r)

SpecStream == InitStream /\ [][NextStream]_vars

(***************************************************************************)
(* Properties of the stream normalizer (checked under SpecStream)          *)
(***************************************************************************)
\* a content chunk whose delta is { content: text }
IsContentFrame(item, text) ==
  /\ item.k = "sse"
  /\ item.payload.object = "chat.completion.chunk"
  /\ item.payload.delta = JObj(<<KV("content", JStr(text))>>)
  /\ item.payload.finish_reason = JNull

\* the stop chunk: finish_reason "stop" and an empty delta
IsStopChunk(item) ==
  /\ item.k = "sse"
  /\ item.payload.delta = JObj(<<>>)
  /\ item.payload.finish_reason = JStr("stop")

\* the terminal sentinel in the SSE wire format: `data: [DONE]` and a blank line
IsSentinel(item) == item.k = "raw" /\ item.text = "data: [DONE]\n\n"

\* out is the content frames of texts, in order, then the stop chunk, then the
\* sentinel
IsNormalOutput(out, texts) ==
  /\ Len(out) = Len(texts) + 2
  /\ \A i \in 1..Len(texts) : IsContentFrame(out[i], texts[i])
  /\ IsStopChunk(out[Len(texts) + 1])
  /\ IsSentinel(out[Len(texts) + 2])

\* the request's backend call returned a stream
GotStream(r) == AiStreamOf(aiResult[r]) # JNull

\* C1: when every read of a backend stream succeeds and the backend reports
\* done, the output ends with exactly one stop chunk followed at once by
\* exactly one sentinel and is closed, with no stop chunk or sentinel before.
StopAndSentinelOnce ==
  \A r \in Reqs :
    (pc[r] = "done" /\ GotStream(r) /\ readError[r] = "") =>
      /\ ctl[r] = "closed"
      /\ LET n == Len(written[r])
         IN /\ n >= 2
            /\ IsStopChunk(written[r][n - 1])
            /\ IsSentinel(written[r][n])
            /\ \A i \in 1..(n - 2) :
                 ~IsStopChunk(written[r][i]) /\ ~IsSentinel(written[r][i])

\* the text each of the first six events makes the normalizer emit
EventTexts == << <<"a">>, <<"@">>, <<>>, <<"{b", "ok">>, <<>>, <<"hey">> >>

\* the byte stream made of the events q names, with the texts of its events
\* in order
WireTexts(q) ==
  [wire |-> WireOf(q), texts |-> Flatten([i \in 1..Len(q) |-> EventTexts[q[i]]])]

\* the byte streams made of the events of `events`
WiresOver(events) == {WireTexts(q) : q \in SeqsUpTo(events, MaxEvents)}

\* byte streams of n frames that each carry { response: t } with t not empty
ResponseWires == WiresOver({1, 2})

\* C2: a byte stream of n >= 0 `data:` frames carrying { response: t_i } gives
\* exactly the n content frames { content: t_i } in that order, then the stop
\* chunk, then the sentinel.
ResponseFramesInOrder ==
  \A r \in Reqs :
    (pc[r] = "done" /\ ctl[r] = "closed" /\ strReads[r] = <<>>) =>
      \A x \in ResponseWires :
        wire[r] = x.wire => IsNormalOutput(written[r], x.texts)

\* two frames that arrived over reads that cut an event have come out in order
ResponseFramesInOrderWitness ==
  \E r \in Reqs :
    /\ pc[r] = "done" /\ ctl[r] = "closed" /\ strReads[r] = <<>> /\ carried[r]
    /\ wire[r] = Events[1] \o Events[2]
    /\ IsNormalOutput(written[r], <<"a", "@">>)

\* C3: a `data:` frame whose bytes arrive over byte reads that cut it at any
\* position gives no content frame before its last byte has arrived and
\* exactly one content frame with its text from then on, as in a single read.
SplitFrameReassembled ==
  \A r \in Reqs : \A e \in {1, 2} :
    (wire[r] = Events[e] /\ strReads[r] = <<>>) =>
      /\ pos[r] < Len(wire[r]) => written[r] = <<>>
      /\ (pos[r] = Len(wire[r]) /\ pc[r] = "reading") =>
           /\ Len(written[r]) = 1
           /\ IsContentFrame(written[r][1], EventTexts[e][1])
           /\ buffer[r] = ""
      /\ (pc[r] = "done" /\ ctl[r] = "closed") =>
           IsNormalOutput(written[r], EventTexts[e])

\* a frame cut by a read has come out as one content frame
SplitFrameReassembledWitness ==
  \E r \in Reqs :
    /\ wire[r] = Events[2] /\ strReads[r] = <<>> /\ carried[r]
    /\ pos[r] = Len(wire[r]) /\ pc[r] = "reading"
    /\ Len(written[r]) = 1 /\ IsContentFrame(written[r][1], "@")

OnlyReadFailureAborts ==
  \A r \in Reqs : ctl[r] = "errored" => readError[r] # ""

\* byte streams of complete events, among them the event with the `data:`
\* lines `{b` and `ok`, which are not JSON
RawLineWires ==
  {WireTexts(q) : q \in {p \in SeqsUpTo(1..6, MaxEvents) : \E i \in 1..Len(p) : p[i] = 4}}

\* C8: a `data:` line of a complete event whose trimmed payload is not empty,
\* not [DONE] and not JSON gives exactly one content frame with that payload,
\* at the line's place among the frames of the stream.
NonJsonLinesVerbatim ==
  \A r \in Reqs :
    (pc[r] = "done" /\ ctl[r] = "closed" /\ strReads[r] = <<>>) =>
      \A x \in RawLineWires :
        wire[r] = x.wire => IsNormalOutput(written[r], x.texts)

\* the two lines that are not JSON have come out after the frame before them
NonJsonLinesVerbatimWitness ==
  \E r \in Reqs :
    /\ pc[r] = "done" /\ ctl[r] = "closed" /\ strReads[r] = <<>>
    /\ wire[r] = Events[1] \o Events[4]
    /\ IsNormalOutput(written[r], <<"a", "{b", "ok">>)

\* what a pass enqueues that gets all the bytes in one read and then done
OnePass(r, bytes) ==
  LET step == ProcessText("", Decode("", bytes).text)
  IN FinalWrites(emitAll(<<>>, RequestId(r), model[r], step.texts),
                 RequestId(r), model[r], step.buffer)

\* C16: a pass over a byte sequence that has ended normally has produced the
\* frames of the pass that gets the same bytes in one read, however the bytes
\* were divided into reads; so any two passes over the same bytes produce the
\* same frames (the id being the same and `created` left out).
SameBytesSameFrames ==
  \A r \in Reqs :
    (pc[r] = "done" /\ ctl[r] = "closed" /\ GotStream(r) /\ strReads[r] = <<>>) =>
      written[r] = OnePass(r, wire[r])

\* a pass whose reads cut an event has produced the frames of the one-read
\* pass over two events, one with a two-byte character and CRLF line ends
SameBytesSameFramesWitness ==
  \E r \in Reqs :
    /\ pc[r] = "done" /\ ctl[r] = "closed" /\ strReads[r] = <<>> /\ carried[r]
    /\ wire[r] = Events[2] \o Events[4]
    /\ written[r] = OnePass(r, wire[r])
    /\ IsNormalOutput(written[r], <<"@", "{b", "ok">>)

\* the text decoded from the bytes read so far
DecodedSoFar(r) == Decode("", SubSeq(wire[r], 1, pos[r])).text

\* the text s holds one of the boundaries, ends with one of them
HoldsBoundary(s, boundaries) ==
  \E b \in boundaries : \E i \in 1..(Len(s) - Len(b) + 1) :
    SubSeq(s, i, i + Len(b) - 1) = b
EndsWithBoundary(s, boundaries) ==
  \E b \in boundaries :
    Len(s) >= Len(b) /\ SubSeq(s, Len(s) - Len(b) + 1, Len(s)) = b

\* The buffer is the end of `text`, it follows a boundary unless it is the
\* whole text, and it holds no boundary; while only bytes have been read, the
\* frames written are those of the events before the buffer, once each.
BufferIsTail(r, text, boundaries) ==
  LET before == SubSeq(text, 1, Len(text) - Len(buffer[r]))
  IN /\ Len(buffer[r]) <= Len(text)
     /\ text = before \o buffer[r]
     /\ ~HoldsBoundary(buffer[r], boundaries)
     /\ before = "" \/ EndsWithBoundary(before, boundaries)
     /\ (pc[r] = "reading" /\ strReads[r] = <<>>) =>
          written[r] = emitAll(<<>>, RequestId(r), model[r], ProcessText("", text).texts)

\* C17 as stated, the blank-line boundaries being `\n\n` and `\r\n\r\n`: after
\* each byte read the buffer holds exactly the text after the last boundary
\* and no boundary, and the events before it have been processed once.
BufferAfterLastBoundary ==
  \A r \in Reqs :
    \A text \in {DecodedSoFar(r)} : BufferIsTail(r, text, {"\n\n", "\r\n\r\n"})

\* two line ends, each a line feed with or without a carriage return before
BlankLines == {"\n\n", "\r\n\r\n", "\n\r\n", "\r\n\n"}

\* C17 amended, a blank-line boundary being any two line ends in a row, each
\* LF or CRLF (a match of /\r?\n\r?\n/): after each byte read the buffer
\* holds exactly the text after the last boundary and no boundary, and the
\* events before it have been processed once.
BufferAfterLastBlankLine ==
  \A r \in Reqs :
    \A text \in {DecodedSoFar(r)} : BufferIsTail(r, text, BlankLines)

\* an event that ends with LF CRLF has been processed and the bytes after it
\* that have arrived are in the buffer
BufferAfterLastBlankLineWitness ==
  \E r \in Reqs :
    /\ pc[r] = "reading" /\ strReads[r] = <<>>
    /\ wire[r] = Events[6] \o Events[1]
    /\ buffer[r] = "data: {"
    /\ Len(written[r]) = 1 /\ IsContentFrame(written[r][1], "hey")

\* C18: the step in which the backend stream reports done adds to the output,
\* when the buffer holds text that is not blank, one content frame with the
\* buffer's text as it is, then the stop chunk and the sentinel; when the
\* buffer is empty or blank it adds the stop chunk and the sentinel only.
FlushBeforeStop ==
  [][\A r \in Reqs :
       (pc[r] = "reading" /\ pc'[r] = "done" /\ ctl'[r] = "closed") =>
         LET n == Len(written[r])
             flushed == IF Trim(buffer[r]) = "" THEN <<>> ELSE <<buffer[r]>>
         IN /\ Len(written'[r]) >= n
            /\ SubSeq(written'[r], 1, n) = written[r]
            /\ IsNormalOutput(SubSeq(written'[r], n + 1, Len(written'[r])), flushed)]_vars

\* an event that no blank line ended has been flushed after the frame of the
\* event before it
FlushBeforeStopWitness ==
  \E r \in Reqs :
    /\ pc[r] = "done" /\ ctl[r] = "closed" /\ strReads[r] = <<>>
    /\ wire[r] = Events[1] \o Events[7]
    /\ buffer[r] = Events[7]
    /\ IsNormalOutput(written[r], <<"a", Events[7]>>)

(***************************************************************************)
(* Properties of POST /v1/chat/completions (checked under Spec)            *)
(***************************************************************************)
\* the request carries the configured token
Authenticated(r) ==
  /\ req[r].token = "secret"
  /\ req[r].auth \in {JStr("Bearer secret"), JStr("Bearer  secret ")}

\* the handler of POST /v1/chat/completions has answered an authenticated
\* request whose body is JSON
Handled(r) ==
  /\ pc[r] = "done"
  /\ req[r].route = "POST /v1/chat/completions"
  /\ Authenticated(r)
  /\ body[r].ok

\* the backend call of the request has returned a value (it has not thrown)
Returned(r) == aiResult[r].t \notin {"undef", "thrown"}

\* C5: when a valid request has stream = true and the backend returns a value
\* that holds no stream, the response is an SSE stream of exactly three
\* writes: the content chunk with the text extracted from the value, the stop
\* chunk and the sentinel `data: [DONE]` followed by a blank line, then closed.
FallbackIsWellFormedSse ==
  \A r \in Reqs :
    (Handled(r) /\ streamMode[r] /\ Returned(r) /\ ~GotStream(r)) =>
      /\ resp[r].status = 200 /\ resp[r].kind = "sse"
      /\ ctl[r] = "closed"
      /\ Len(written[r]) = 3
      /\ IsContentFrame(written[r][1], extractTextFromAiResult(aiResult[r]))
      /\ IsStopChunk(written[r][2])
      /\ IsSentinel(written[r][3])

\* `messages` is absent, not an array or empty, or holds a message whose
\* content is no string or blank after trimming, or that has no role
BadMessages(parsedBody) ==
  LET messages == Get(parsedBody, "messages")
  IN \/ messages.t # "arr"
     \/ Len(messages.a) = 0
     \/ \E i \in 1..Len(messages.a) :
          \/ Get(messages.a[i], "content").t # "str"
          \/ Trim(Get(messages.a[i], "content").s) = ""
          \/ Get(messages.a[i], "role").t = "undef"

\* C6: an authenticated POST /v1/chat/completions whose `messages` is absent,
\* not an array, empty, or holds a message with a content that is no string
\* or is blank, or with no role, is answered 400 invalid_request_error, and
\* the backend is not called for it, whatever `model` and `stream` are.
ValidationBeforeBackend ==
  \A r \in Reqs :
    (Handled(r) /\ BadMessages(body[r].v)) =>
      /\ resp[r].status = 400
      /\ resp[r].kind = "json"
      /\ resp[r].body.error.type = "invalid_request_error"
      /\ aiCalls[r] = <<>>

\* the model the request asks for, the default model when it names none
RequestedModel(r) ==
  IF Get(body[r].v, "model").t = "str" THEN Get(body[r].v, "model")
  ELSE JStr("@cf/meta/llama-3.1-8b-instruct")

\* C9: a valid request without stream whose backend call returns r is answered
\* with a chat.completion of one choice (index 0, role assistant,
\* finish_reason stop) whose content is extractTextFromAiResult(r), whose
\* usage is extractUsageFromAiResult(r) and whose model is the requested
\* model, the default model when none was given.
NonStreamCompletion ==
  \A r \in Reqs :
    (Handled(r) /\ ~streamMode[r] /\ Returned(r)) =>
      /\ resp[r].status = 200 /\ resp[r].kind = "json"
      /\ resp[r].body.object = "chat.completion"
      /\ resp[r].body.model = RequestedModel(r)
      /\ resp[r].body.choices =
           <<[index |-> 0,
              message |-> [role |-> "assistant",
                           content |-> extractTextFromAiResult(aiResult[r])],
              finish_reason |-> "stop"]>>
      /\ resp[r].body.usage = extractUsageFromAiResult(aiResult[r])
      /\ Len(aiCalls[r]) = 1

\* C10: when the backend call of a valid request without stream throws, the
\* response is 500 with an error of type server_error whose message is the
\* thrown Error's message, the default message when what was thrown is no
\* Error; the response holds no completion.
BackendFailureIs500 ==
  \A r \in Reqs :
    (Handled(r) /\ ~streamMode[r] /\ aiResult[r].t = "thrown") =>
      resp[r] =
        [status |-> 500, kind |-> "json",
         body |-> [error |-> [message |-> IF aiResult[r].isError
                                            THEN aiResult[r].message
                                            ELSE "Workers AI call failed.",
                              type |-> "server_error",
                              param |-> JNull, code |-> JNull]]]

\* an Error thrown by the backend has been answered with its message
BackendFailureIs500Witness ==
  \E r \in Reqs :
    /\ Handled(r) /\ ~streamMode[r]
    /\ aiResult[r].t = "thrown" /\ aiResult[r].isError
    /\ resp[r].status = 500
    /\ resp[r].body.error.message = "AI down"

\* C11: a request calls the backend's run at most once on every path: no step
\* leaves more than one call on record, and once a call has been made (whether
\* it returned, threw, or its stream's read failed) no step adds another.
AtMostOneBackendCall ==
  [][\A r \in Reqs :
       /\ Len(aiCalls'[r]) <= 1
       /\ Len(aiCalls[r]) = 1 => aiCalls'[r] = aiCalls[r]]_vars

\* a request whose stream's read failed has ended with its one call
AtMostOneBackendCallWitness ==
  \E r \in Reqs :
    /\ pc[r] = "done" /\ readError[r] = "timed out"
    /\ Len(aiCalls[r]) = 1
    /\ Get(aiCalls[r][1].inputs, "stream") = JBool(TRUE)

\* Authorization headers that are missing, not of the form `Bearer <token>`,
\* or that carry another token than the configured one
BadHeaders == {JUndef, JStr("secret"), JStr("Bearer "), JStr("Bearer wrong")}

\* the request has ended with `answer` and nothing of a route handler or of
\* the backend
EndedAtGate(r, answer) ==
  /\ pc'[r] = "done"
  /\ resp'[r] = answer
  /\ body'[r] = NoBody /\ model'[r] = JUndef
  /\ aiCalls'[r] = <<>> /\ aiResult'[r] = JUndef
  /\ ctl'[r] = "none" /\ written'[r] = <<>>

\* C12: on every route, every step of a request that has arrived at a server
\* with no AUTH_TOKEN ends it with HTTP 500, whatever its header, and every
\* step of a request whose header is missing, malformed or carries another
\* token ends it with HTTP 401 { error: "Unauthorized" }; in both cases no
\* route handler has run and the backend has not been called.
GateBeforeHandlers ==
  [][\A r \in Reqs :
       /\ (pc[r] # "idle" /\ req[r].token = "") =>
            /\ resp'[r].status = 500 /\ resp'[r].kind = "json"
            /\ EndedAtGate(r, resp'[r])
       /\ (pc[r] # "idle" /\ req[r].token # "" /\ req[r].auth \in BadHeaders) =>
            EndedAtGate(r, Json(401, [error |-> "Unauthorized"]))]_vars

\* a chat completion request with another token has been answered 401
GateBeforeHandlersWitness ==
  \E r \in Reqs :
    /\ pc[r] = "done"
    /\ req[r].route = "POST /v1/chat/completions"
    /\ req[r].token = "secret" /\ req[r].auth = JStr("Bearer wrong")
    /\ resp[r] = Json(401, [error |-> "Unauthorized"])
    /\ aiCalls[r] = <<>>

\* the trimmed concatenation of the string elements and the `text` fields of
\* the object elements of `output`, as a string value; JUndef when `output`
\* is no array or the concatenation is empty
OutputText(result) ==
  LET output == Get(result, "output")
      pieces == [i \in 1..Len(output.a) |->
                   IF output.a[i].t = "str" THEN output.a[i].s
                   ELSE IF Get(output.a[i], "text").t = "str" THEN Get(output.a[i], "text").s
                   ELSE ""]
  IN IF output.t # "arr" \/ Trim(JoinStr(pieces)) = "" THEN JUndef
     ELSE JStr(Trim(JoinStr(pieces)))

\* the places a text is looked for, from the highest priority to the lowest
TextPlaces(result) ==
  <<Get(result, "response"),
    Get(Get(result, "result"), "response"),
    Get(Get(result, "result"), "output_text"),
    OutputText(result)>>

\* the string of the first place that holds one, the JSON serialization of
\* the result when no place does
TextByPriority(result) ==
  LET places == TextPlaces(result)
      found == {i \in 1..Len(places) : places[i].t = "str"}
  IN IF found = {} THEN JSONStringify(result)
     ELSE places[CHOOSE i \in found : \A j \in found : i <= j].s

\* C13: for every value the backend call of a valid request without stream
\* returns, the text extraction does not fail and the completion's content is
\* the string chosen by the fixed priority: `response`, `result.response`,
\* `result.output_text`, the trimmed concatenation of `output`, and last the
\* JSON serialization of the whole result.
TextExtractionTotal ==
  \A r \in Reqs :
    (Handled(r) /\ ~streamMode[r] /\ Returned(r)) =>
      /\ resp[r].status = 200
      /\ resp[r].body.choices[1].message.content = TextByPriority(aiResult[r])

\* the four places a usage is looked for, in the order of the search
UsagePlaces(result) ==
  <<result, Get(result, "usage"), Get(result, "result"),
    Get(Get(result, "result"), "usage")>>

PromptKeys == <<"prompt_tokens", "input_tokens", "promptTokens", "inputTokens">>
CompletionKeys == <<"completion_tokens", "output_tokens", "completionTokens", "outputTokens">>
TotalKeys == <<"total_tokens", "totalTokens">>

\* the number the place holds under the first of the keys that holds one,
\* JNull when none does
Quantity(place, keys) ==
  LET held == {i \in 1..Len(keys) : toNumber(Get(place, keys[i])) # JNull}
  IN IF held = {} THEN JNull
     ELSE toNumber(Get(place, keys[CHOOSE i \in held : \A j \in held : i <= j]))

\* the place holds a number of prompt, completion or total tokens
HasQuantity(place) ==
  \E keys \in {PromptKeys, CompletionKeys, TotalKeys} : Quantity(place, keys) # JNull

\* C14: the usage of a completion is taken whole from the first of the places
\* result, result.usage, result.result, result.result.usage that holds any
\* quantity: its prompt and completion tokens are the ones of that place, 0
\* when the place has none, whatever later places hold; when no place holds a
\* quantity the usage is {0, 0, 0}.
UsageFromFirstPlace ==
  \A r \in Reqs :
    (Handled(r) /\ ~streamMode[r] /\ aiResult[r].t = "obj") =>
      LET places == UsagePlaces(aiResult[r])
          found == {i \in 1..Len(places) : HasQuantity(places[i])}
          first == places[CHOOSE i \in found : \A j \in found : i <= j]
          usage == resp[r].body.usage
      IN IF found = {}
           THEN usage = [prompt_tokens |-> 0, completion_tokens |-> 0, total_tokens |-> 0]
           ELSE /\ usage = getUsageFromObject(first)
                /\ usage.prompt_tokens =
                     (IF Quantity(first, PromptKeys) = JNull THEN 0
                      ELSE Quantity(first, PromptKeys).n)
                /\ usage.completion_tokens =
                     (IF Quantity(first, CompletionKeys) = JNull THEN 0
                      ELSE Quantity(first, CompletionKeys).n)

\* the result itself holds completion tokens only: they are returned with no
\* prompt tokens, though result.usage holds some, and with no total, though
\* result.result holds one
UsageFromFirstPlaceWitness ==
  \E r \in Reqs :
    /\ Handled(r) /\ ~streamMode[r]
    /\ Get(aiResult[r], "completion_tokens") = JNum(2)
    /\ Get(Get(aiResult[r], "usage"), "prompt_tokens") = JNum(3)
    /\ Get(Get(aiResult[r], "result"), "total_tokens") = JNum(7)
    /\ resp[r].body.usage =
         [prompt_tokens |-> 0, completion_tokens |-> 2, total_tokens |-> 0]

\* no place of the result holds a total token count
NoTotalReported(result) ==
  \A i \in 1..Len(UsagePlaces(result)) :
    Quantity(UsagePlaces(result)[i], TotalKeys) = JNull

\* C15: in the usage of a completion made from a result that reports no total
\* token count, total_tokens is prompt_tokens + completion_tokens of that
\* same usage, and the three fields are not negative.
UsageTotalIsSum ==
  \A r \in Reqs :
    (Handled(r) /\ ~streamMode[r] /\ aiResult[r].t = "obj"
       /\ NoTotalReported(aiResult[r])) =>
      LET usage == resp[r].body.usage
      IN /\ usage.total_tokens = usage.prompt_tokens + usage.completion_tokens
         /\ usage.prompt_tokens >= 0
         /\ usage.completion_tokens >= 0
         /\ usage.total_tokens >= 0

(***************************************************************************)
(* Further properties of the stream normalizer (checked under SpecStream)  *)
(***************************************************************************)
\* C19: a `data:` payload that is a JSON object gives one content frame for
\* each non-empty string among its `response`, `output_text`, `text`,
\* `delta.content` and, for each element of `choices` in order, the element's
\* `delta.content` and then its `text`, in this order; payloads that hold no
\* such string, or that are no object, give no frame.
DeltaTextsInOrder ==
  \A r \in Reqs :
    (pc[r] = "done" /\ ctl[r] = "closed" /\ GotStream(r) /\ strReads[r] = <<>>) =>
      /\ wire[r] = DeltaEvent => IsNormalOutput(written[r], <<"r", "o", "t", "d">>)
      /\ wire[r] = ChoicesEvent => IsNormalOutput(written[r], <<"t", "y", "x", "z">>)
      /\ wire[r] = NoDeltaEvent => IsNormalOutput(written[r], <<>>)

\* the payload with `choices` has come out as four frames, its `text` first
DeltaTextsInOrderWitness ==
  \E r \in Reqs :
    /\ pc[r] = "done" /\ ctl[r] = "closed" /\ strReads[r] = <<>>
    /\ wire[r] = ChoicesEvent
    /\ Len(written[r]) = 6
    /\ IsContentFrame(written[r][1], "t") /\ IsContentFrame(written[r][2], "y")
    /\ IsContentFrame(written[r][3], "x") /\ IsContentFrame(written[r][4], "z")

\* a step is a backend read that has delivered the string `value`
IsStringRead(r, value) == strReads'[r] = Append(strReads[r], value)

\* the step leaves the normalizer in its loop and the buffer, the decoder and
\* the bytes read as they were
LeavesBufferAlone(r) ==
  /\ pc'[r] = "reading"
  /\ buffer'[r] = buffer[r] /\ pend'[r] = pend[r] /\ pos'[r] = pos[r]

\* the step adds one frame to the output, a content frame with `text`
AddsOneFrame(r, text) ==
  /\ Len(written'[r]) = Len(written[r]) + 1
  /\ SubSeq(written'[r], 1, Len(written[r])) = written[r]
  /\ IsContentFrame(written'[r][Len(written'[r])], text)

\* C20 as stated: every backend read that delivers a string adds, in the step
\* of the read, exactly one content frame with that string, and leaves the
\* buffer alone.
StringReadOneFrame ==
  [][\A r \in Reqs : \A value \in StringReads :
       IsStringRead(r, value) => (AddsOneFrame(r, value) /\ LeavesBufferAlone(r))]_vars

\* C20 amended: every backend read that delivers a string that is not empty
\* adds, in the step of the read, exactly one content frame with that string;
\* a read that delivers the empty string adds no frame; both leave the buffer
\* alone.
StringReadFrames ==
  [][\A r \in Reqs : \A value \in StringReads :
       IsStringRead(r, value) =>
         /\ LeavesBufferAlone(r)
         /\ IF value = "" THEN written'[r] = written[r] ELSE AddsOneFrame(r, value)]_vars

\* a string read between two byte reads that cut an event has come out as a
\* frame while the event's bytes wait in the buffer
StringReadFramesWitness ==
  \E r \in Reqs :
    /\ pc[r] = "reading" /\ strReads[r] = <<"s">>
    /\ wire[r] = Events[1] /\ buffer[r] = "data: {"
    /\ Len(written[r]) = 1 /\ IsContentFrame(written[r][1], "s")

(***************************************************************************)
(* Two requests in flight together: each is a valid request with stream:   *)
(* true that has called AI.run; the tasks take their steps in any order,   *)
(* one step from an await to the next.                                     *)
(***************************************************************************)
Pair == {1, 2}

\* the `model` of the two bodies: none (the default model) and a listed one
PairModels == <<JUndef, JStr("@cf/openai/gpt-oss-20b")>>

PairBody(r) ==
  [ok |-> TRUE,
   v |-> JObj(<<KV("model", PairModels[r]),
                KV("messages", JArr(<<Msg(JStr("user"), JStr("hi"))>>)),
                KV("stream", JBool(TRUE))>>)]

PairCall(r) ==
  [model |-> ModelOf(PairBody(r).v),
   inputs |-> RunInputs(MessagesOf(PairBody(r).v), TRUE)]

\* the byte sequences of the two backend streams: a line that is no `data:`
\* line with a piece no blank line ends after it, or one `data:` frame
PairWires == {WireOf(<<6, 8>>), Events[1]}

InitPair ==
  /\ pc = [r \in Pair |-> "run"]
  /\ req = [r \in Pair |->
             [token |-> "secret", auth |-> JStr("Bearer secret"),
              route |-> "POST /v1/chat/completions"]]
  /\ body = [r \in Pair |-> PairBody(r)]
  /\ resp = [r \in Pair |-> NoResp]
  /\ aiCalls = [r \in Pair |-> <<PairCall(r)>>]
  /\ aiResult = [r \in Pair |-> JUndef]
  /\ model = [r \in Pair |-> ModelOf(PairBody(r).v)]
  /\ streamMode = [r \in Pair |-> TRUE]
  /\ wire = [r \in Pair |-> ""]
  /\ pos = [r \in Pair |-> 0]
  /\ pend = [r \in Pair |-> ""]
  /\ buffer = [r \in Pair |-> ""]
  /\ written = [r \in Pair |-> <<>>]
  /\ ctl = [r \in Pair |-> "none"]
  /\ ctlError = [r \in Pair |-> ""]
  /\ locked = [r \in Pair |-> FALSE]
  /\ carried = [r \in Pair |-> FALSE]
  /\ strReads = [r \in Pair |-> <<>>]
  /\ readError = [r \in Pair |-> ""]

NextPair ==
  \E r \in Pair :
    \/ StreamStart(r, {Stream(w) : w \in PairWires})
    \/ ReadBytes(r)
    \/ ReadString(r)
    \/ ReadObject(r)
    \/ ReadFails(r)
    \/ ReadDone(r)

SpecPair == InitPair /\ [][NextPair]_vars

(***************************************************************************)
(* Properties of requests in flight together (checked under SpecPair)      *)
(***************************************************************************)
\* what belongs to the task of request r
Local(r) ==
  <<pc[r], resp[r], aiCalls[r], aiResult[r], model[r], wire[r], pos[r], pend[r], buffer[r],
    written[r], ctl[r], ctlError[r], locked[r], strReads[r], readError[r]>>

\* the decoder, the buffer and the frames of a pass that runs alone and has
\* got the bytes request r has read so far in one read
PrefixPass(r) ==
  LET decoded == Decode("", SubSeq(wire[r], 1, pos[r]))
      step == ProcessText("", decoded.text)
  IN [pend |-> decoded.pend,
      buffer |-> step.buffer,
      written |-> emitAll(<<>>, RequestId(r), ModelOf(body[r].v), step.texts)]

\* every frame of request r carries the request's id and model
FramesAreOwn(r) ==
  \A i \in 1..Len(written[r]) :
    written[r][i].k = "sse" =>
      /\ written[r][i].payload.id = RequestId(r)
      /\ written[r][i].payload.model = ModelOf(body[r].v)

\* request r, whose reads delivered bytes only, holds what the pass alone holds
AsAlone(r) ==
  \A alone \in {PrefixPass(r)} :
    /\ pend[r] = alone.pend
    /\ buffer[r] = alone.buffer
    /\ written[r] =
         IF ctl[r] = "closed"
           THEN FinalWrites(alone.written, RequestId(r), ModelOf(body[r].v), alone.buffer)
           ELSE alone.written

\* a step that changes what belongs to one request leaves what belongs to
\* every other request as it was
OneTaskSteps ==
  \A r \in Pair : \A q \in Pair \ {r} :
    Local(r)' # Local(r) => Local(q)' = Local(q)

\* C21: when streaming requests are in flight together and their steps
\* interleave at the awaits of the backend call and of each backend read, the
\* frames of each request are those of the request running alone: every frame
\* carries the request's own id and model, a request whose reads delivered
\* bytes holds the decoder state, the buffer and the frames of a pass alone
\* over the bytes it has read, and no step of one request changes the buffer
\* or the frames of another.
ConcurrentRequestsIsolated ==
  /\ [](\A r \in Pair : FramesAreOwn(r) /\ ((GotStream(r) /\ strReads[r] = <<>>) => AsAlone(r)))
  /\ [][OneTaskSteps]_vars

\* request 2 has ended, a string read and byte reads that cut its event
\* behind it, with the frame of its event under its id and model, while
\* request 1 waits for a read with a frame of its own written and a piece of
\* its next event in its buffer
ConcurrentRequestsIsolatedWitness ==
  /\ pc[1] = "reading" /\ wire[1] = WireOf(<<6, 8>>) /\ buffer[1] = " "
  /\ strReads[1] = <<>>
  /\ Len(written[1]) = 1 /\ IsContentFrame(written[1][1], "hey")
  /\ written[1][1].payload.id = "chatcmpl-1"
  /\ written[1][1].payload.model = JStr(DEFAULT_MODEL)
  /\ pc[2] = "done" /\ ctl[2] = "closed" /\ wire[2] = Events[1] /\ carried[2]
  /\ strReads[2] = <<"s">>
  /\ Len(written[2]) = 4
  /\ IsContentFrame(written[2][1], "s") /\ IsContentFrame(written[2][2], "a")
  /\ written[2][2].payload.id = "chatcmpl-2"
  /\ written[2][2].payload.model = JStr("@cf/openai/gpt-oss-20b")

(***************************************************************************)
(* Further properties of POST /v1/chat/completions (checked under Spec)    *)
(***************************************************************************)
\* the message has a string `role` and a string `content` that is not empty
\* after trimming
WellFormedMessage(message) ==
  /\ Get(message, "role").t = "str"
  /\ Get(message, "content").t = "str"
  /\ Trim(Get(message, "content").s) # ""

\* the 400 answer to a message list that holds a message that is not well
\* formed
MessageError ==
  Json(400, createOpenAIError(
    "Each message must include string 'role' and non-empty string 'content'.").body)

\* C22: every message of a list passed to the backend has a string `role`
\* and a string `content` that is not empty after trimming, and a request
\* whose list holds a message that fails either condition is answered with
\* the 400 error that names the two conditions.
BackendMessagesWellFormed ==
  \A r \in Reqs :
    /\ \A i \in 1..Len(aiCalls[r]) :
         \A messages \in {Get(aiCalls[r][i].inputs, "messages")} :
           \A j \in 1..Len(messages.a) : WellFormedMessage(messages.a[j])
    /\ \A messages \in {Get(body[r].v, "messages")} :
         (/\ Handled(r)
          /\ IsArr(messages)
          /\ \E j \in 1..Len(messages.a) : ~WellFormedMessage(messages.a[j]))
           => resp[r] = MessageError

(***************************************************************************)
(* The content of the normalizer's frames (checked under SpecStream)       *)
(***************************************************************************)
\* a chunk whose delta is { content } with a string that is not empty, and
\* whose finish_reason is null
HasContent(item) ==
  /\ item.k = "sse"
  /\ item.payload.finish_reason = JNull
  /\ Len(item.payload.delta.kv) = 1
  /\ Get(item.payload.delta, "content").t = "str"
  /\ Len(Get(item.payload.delta, "content").s) > 0

\* how many of the writes of request r come before the stop chunk
BeforeStop(r) ==
  IF ctl[r] = "closed" THEN Len(written[r]) - 2 ELSE Len(written[r])

\* C23: no content frame of the stream normalizer carries an empty content:
\* every frame written before the stop chunk has a delta whose content is a
\* string of length > 0 and a finish_reason of null, whatever the backend
\* reads delivered.
NoEmptyContentFrame ==
  \A r \in Reqs :
    \A i \in 1..BeforeStop(r) : HasContent(written[r][i])

\* a stream whose first event carries an empty text, read along with an
\* empty string, has ended with the frame of its second event alone before
\* the stop chunk
NoEmptyContentFrameWitness ==
  \E r \in Reqs :
    /\ pc[r] = "done" /\ ctl[r] = "closed" /\ strReads[r] = <<"">>
    /\ wire[r] = Events[5] \o Events[1]
    /\ BeforeStop(r) = 1
    /\ IsContentFrame(written[r][1], "a")
    /\ IsStopChunk(written[r][2])

=============================================================================
